---- MODULE Spec2Model ----
(***************************************************************************)
(* Model of k8s-latency-probe (src/main.go).                               *)
(*                                                                         *)
(* The instrumented main (lines 28-145) is modelled as two goroutines, the *)
(* coordinator (main) and the poller (the go func of lines 84-116), that   *) 
(* share the context ctx, the unbuffered channel found and the cluster.    *)
(* A remote call is two steps: the call is issued (it fails fast, without  *)
(* reaching the cluster, when ctx is already cancelled) and it returns     *)
(* (with a result or an error); in between the cluster may have applied   *)
(* it, so that the other goroutine can see its effect before the caller    *)
(* does.                                                                   *)
(* A panic, in either goroutine, ends the process with a non-zero status.  *)
(***************************************************************************)
EXTENDS Integers, Sequences, FiniteSets, TLC

\* Bounds of the model.
MaxList == 3        \* list queries the poller may issue in one run
MaxInstance == 2    \* distinct instance tokens rand.Read may produce

Instances == 1..MaxInstance

\* fmt.Sprintf("probe-%s", instance)
PodName(i) == <<"probe", i>>

PodNames == {PodName(i) : i \in Instances}

NoPod == <<"none", 0>>

\* a pod that is not in the cluster / a pod as Create makes it (only app=probe)
AbsentPod == [exists |-> FALSE, probeInstance |-> 0]

CreatedPod == [exists |-> TRUE, probeInstance |-> 0]

VARIABLES
    mainPc,        \* position of main
    pollerPc,      \* position of the poller goroutine
    cancelled,     \* ctx.Done() is closed (deadline, SIGTERM or SIGINT)
    exit,          \* "running", "ok" (status 0) or "crashed" (panic, status 2)
    crashCause,    \* the call whose error was turned into the panic
    branch,        \* case taken by the select on found: "none", "found", "ctx"
    cancelledAtRace, \* value of cancelled when that select was resolved
    foundClosed,   \* close(found) was executed
    foundSends,    \* completed sends on found
    tick,          \* ticker.C holds a tick
    envNs,         \* value of K8S_NAMESPACE_NAME ("" when unset)
    fileReadable,  \* the mounted namespace file can be read
    namespace,     \* result of currentNamespace
    instance,      \* the token of this run (0 before it is generated)
    podName,       \* pod.Name as returned by Create
    pods,          \* the cluster: pod name -> pod
    mainCall,      \* main's call in flight: "none", "sent", "failfast"
    pollerCall,    \* the poller's call in flight
    results,       \* what create, patch and delete returned
    listErr,       \* a list query returned an error
    otel,          \* state of the telemetry pipeline
    calls,         \* remote calls issued, in order
    fileConsulted, \* currentNamespace read the mounted namespace file
    listResult,    \* pods.Items of the list response in flight
    cleanerPc,     \* position of the cleanup goroutine (lines 292-310)
    cleanerCall,   \* the cleanup goroutine's call in flight
    finalBranch,   \* case taken by the final select of lines 321-326
    doneSends,     \* completed sends on done
    latencyLines   \* "pod found latency_ms=" lines printed

vars == <<mainPc, pollerPc, cancelled, exit, crashCause, branch,
          cancelledAtRace, foundClosed, foundSends, tick, envNs, fileReadable,
          namespace, instance, podName, pods, mainCall, pollerCall, results,
          listErr, otel, calls, fileConsulted, listResult, cleanerPc,
          cleanerCall, finalBranch, doneSends, latencyLines>>

procVars == <<envNs, fileReadable>>

\* state of the latency-reporting main only (lines 225-328)
lrVars == <<cleanerPc, cleanerCall, finalBranch, doneSends, latencyLines>>

----------------------------------------------------------------------------
\* Pure helpers

\* currentNamespace(): the override first, the mounted file second.
FileNamespace == "file-ns"

\* currentNamespace with the file read first and the override second
currentNamespaceFileFirst(env, readable) ==
    IF readable THEN [ns |-> FileNamespace, err |-> FALSE, read |-> TRUE]
    ELSE IF env # "" THEN [ns |-> env, err |-> FALSE, read |-> TRUE]
    ELSE [ns |-> "", err |-> TRUE, read |-> TRUE]

currentNamespace(env, readable) ==
    IF env # "" THEN [ns |-> env, err |-> FALSE, read |-> FALSE]
    ELSE IF ~readable THEN [ns |-> "", err |-> TRUE, read |-> TRUE]
    ELSE [ns |-> FileNamespace, err |-> FALSE, read |-> TRUE]

\* Pods(namespace).List with LabelSelector "probe-instance=<i>"
ListItems(cluster, i) ==
    {n \in PodNames : cluster[n].exists /\ cluster[n].probeInstance = i}

\* how a call started under ctx leaves the client
CallMode(isCancelled) == IF isCancelled THEN "failfast" ELSE "sent"

Call(op, name, isCancelled) ==
    [op |-> op, name |-> name, live |-> ~isCancelled]

CallsOf(op) == {k \in 1..Len(calls) : calls[k].op = op}

NumCalls(op) == Cardinality(CallsOf(op))

\* results a call in flight can return with: an error when it never left
\* the client or the cluster refused it, the result once the cluster has
\* applied it, unless ctx is cancelled before the response is read
Outcomes(mode, isCancelled) ==
    IF mode = "applied"
    THEN (IF isCancelled THEN {"ok", "err"} ELSE {"ok"})
    ELSE {"err"}

Running == exit = "running"

----------------------------------------------------------------------------
Init ==
    /\ mainPc = "otel"
    /\ pollerPc = "notstarted"
    /\ cancelled = FALSE
    /\ exit = "running"
    /\ crashCause = "none"
    /\ branch = "none"
    /\ cancelledAtRace = FALSE
    /\ foundClosed = FALSE
    /\ foundSends = 0
    /\ tick = FALSE
    /\ envNs \in {"", "env-ns"}
    /\ fileReadable \in BOOLEAN
    /\ namespace = ""
    /\ instance = 0
    /\ podName = NoPod
    /\ pods = [n \in PodNames |-> AbsentPod]
    /\ mainCall = "none"
    /\ pollerCall = "none"
    /\ results = [create |-> "none", patch |-> "none", delete |-> "none"]
    /\ listErr = FALSE
    /\ otel = "uninit"
    /\ calls = <<>>
    /\ fileConsulted = FALSE
    /\ listResult = {}
    /\ cleanerPc = "notstarted"
    /\ cleanerCall = "none"
    /\ finalBranch = "none"
    /\ doneSends = 0
    /\ latencyLines = 0

\* panic in main or in the poller: the process ends with a non-zero status
Panic(cause) ==
    /\ exit' = "crashed"
    /\ crashCause' = cause

----------------------------------------------------------------------------
\* Context

\* the 5 minute deadline expires, or SIGTERM / SIGINT arrives
CtxCancel ==
    /\ Running
    /\ ~cancelled
    /\ cancelled' = TRUE
    /\ UNCHANGED <<mainPc, pollerPc, exit, crashCause, branch,
                   cancelledAtRace, foundClosed, foundSends, tick, procVars,
                   fileConsulted, listResult, lrVars, namespace, instance,
                   podName, pods, mainCall, pollerCall, results, listErr,
                   otel, calls>>

----------------------------------------------------------------------------
\* The coordinator: main, lines 28-145

\* the deferred shutdown() of line 38: a failing tp.Shutdown is only printed
Shutdown == {"shutdown", "shutdown_failed"}

\* must(v, e), also the explicit panics of main: the deferred calls run,
\* then the process ends with a non-zero status
must(cause) ==
    /\ Panic(cause)
    /\ otel' \in (IF otel = "ready" THEN Shutdown ELSE {otel})

\* initOpenTelemetry (lines 172-205), called at line 37
initOpenTelemetry ==
    /\ Running
    /\ mainPc = "otel"
    /\ \E exporterOk \in BOOLEAN, resourceOk \in BOOLEAN :
         IF ~exporterOk THEN
            /\ must("otel_exporter")
            /\ UNCHANGED mainPc
         ELSE IF ~resourceOk THEN
            /\ must("otel_resource")
            /\ UNCHANGED mainPc
         ELSE
            /\ otel' = "ready"
            /\ mainPc' = "config"
            /\ UNCHANGED <<exit, crashCause>>
    /\ UNCHANGED <<pollerPc, cancelled, branch, cancelledAtRace, foundClosed,
                   foundSends, tick, procVars, fileConsulted, listResult,
                   lrVars, namespace, instance, podName, pods, mainCall,
                   pollerCall, results, listErr, calls>>

\* rest.InClusterConfig and kubernetes.NewForConfig, lines 46-48
MainLoadConfig ==
    /\ Running
    /\ mainPc = "config"
    /\ \E ok \in BOOLEAN :
         IF ok THEN
            /\ mainPc' = "namespace"
            /\ UNCHANGED <<exit, crashCause, otel>>
         ELSE
            /\ must("config")
            /\ UNCHANGED mainPc
    /\ UNCHANGED <<pollerPc, cancelled, branch, cancelledAtRace, foundClosed,
                   foundSends, tick, procVars, fileConsulted, listResult,
                   lrVars, namespace, instance, podName, pods, mainCall,
                   pollerCall, results, listErr, calls>>

\* namespace := must(currentNamespace()), line 50
MainNamespace ==
    /\ Running
    /\ mainPc = "namespace"
    /\ LET r == currentNamespace(envNs, fileReadable) IN
         /\ fileConsulted' = r.read
         /\ IF r.err THEN
               /\ must("namespace")
               /\ UNCHANGED <<mainPc, namespace>>
            ELSE
               /\ namespace' = r.ns
               /\ mainPc' = "rand"
               /\ UNCHANGED <<exit, crashCause, otel>>
    /\ UNCHANGED <<pollerPc, cancelled, branch, cancelledAtRace, foundClosed,
                   foundSends, tick, procVars, listResult, lrVars, instance,
                   podName, pods, mainCall, pollerCall, results, listErr,
                   calls>>

\* rand.Read and hex.EncodeToString, lines 52-54
MainInstance ==
    /\ Running
    /\ mainPc = "rand"
    /\ \E i \in Instances : instance' = i
    /\ mainPc' = "create"
    /\ UNCHANGED <<pollerPc, cancelled, exit, crashCause, branch,
                   cancelledAtRace, foundClosed, foundSends, tick, procVars,
                   fileConsulted, listResult, lrVars, namespace, podName,
                   pods, mainCall, pollerCall, results, listErr, otel, calls>>

\* Pods(namespace).Create is called, line 62
MainCreateIssue ==
    /\ Running
    /\ mainPc = "create"
    /\ mainCall' = CallMode(cancelled)
    /\ calls' = Append(calls, Call("create", PodName(instance), cancelled))
    /\ mainPc' = "create_wait"
    /\ UNCHANGED <<pollerPc, cancelled, exit, crashCause, branch,
                   cancelledAtRace, foundClosed, foundSends, tick, procVars,
                   fileConsulted, listResult, lrVars, namespace, instance,
                   podName, pods, pollerCall, results, listErr, otel>>

\* MainCreateReturn with the error of Create dropped instead of passed to must
MainCreateReturnIgnoresError ==
    /\ Running
    /\ mainPc = "create_wait"
    /\ \E res \in Outcomes(mainCall, cancelled) :
         results' = [results EXCEPT !.create = res]
    /\ podName' = PodName(instance)
    /\ mainPc' = "go"
    /\ mainCall' = "none"
    /\ UNCHANGED <<pollerPc, cancelled, exit, crashCause, branch,
                   cancelledAtRace, foundClosed, foundSends, tick, procVars,
                   fileConsulted, listResult, lrVars, namespace, instance,
                   pods, pollerCall, listErr, otel, calls>>

\* Create returns; must panics on its error, lines 62-81
MainCreateReturn ==
    /\ Running
    /\ mainPc = "create_wait"
    /\ \E res \in Outcomes(mainCall, cancelled) :
         IF res = "ok" THEN
            /\ results' = [results EXCEPT !.create = "ok"]
            /\ podName' = PodName(instance)
            /\ mainPc' = "go"
            /\ UNCHANGED <<exit, crashCause, otel>>
         ELSE
            /\ results' = [results EXCEPT !.create = "err"]
            /\ must("create")
            /\ UNCHANGED <<mainPc, podName>>
    /\ mainCall' = "none"
    /\ UNCHANGED <<pollerPc, cancelled, branch, cancelledAtRace, foundClosed,
                   foundSends, tick, procVars, fileConsulted, listResult,
                   lrVars, namespace, instance, pods, pollerCall, listErr,
                   calls>>

\* found := make(chan struct{}); go func(ctx), lines 83-84 and 116
MainStartPoller ==
    /\ Running
    /\ mainPc = "go"
    /\ pollerPc' = "list"
    /\ mainPc' = "patch"
    /\ UNCHANGED <<cancelled, exit, crashCause, branch, cancelledAtRace,
                   foundClosed, foundSends, tick, procVars, fileConsulted,
                   listResult, lrVars, namespace, instance, podName, pods,
                   mainCall, pollerCall, results, listErr, otel, calls>>

\* Pods(namespace).Patch is called, line 120
MainPatchIssue ==
    /\ Running
    /\ mainPc = "patch"
    /\ mainCall' = CallMode(cancelled)
    /\ calls' = Append(calls, Call("patch", podName, cancelled))
    /\ mainPc' = "patch_wait"
    /\ UNCHANGED <<pollerPc, cancelled, exit, crashCause, branch,
                   cancelledAtRace, foundClosed, foundSends, tick, procVars,
                   fileConsulted, listResult, lrVars, namespace, instance,
                   podName, pods, pollerCall, results, listErr, otel>>

\* MainPatchReturn with the failed Patch called again
MainPatchReturnRetries ==
    /\ Running
    /\ mainPc = "patch_wait"
    /\ \E res \in Outcomes(mainCall, cancelled) :
         /\ results' = [results EXCEPT !.patch = res]
         /\ mainPc' = IF res = "ok" THEN "select" ELSE "patch"
    /\ mainCall' = "none"
    /\ UNCHANGED <<pollerPc, cancelled, exit, crashCause, branch,
                   cancelledAtRace, foundClosed, foundSends, tick, procVars,
                   fileConsulted, listResult, lrVars, namespace, instance,
                   podName, pods, pollerCall, listErr, otel, calls>>

\* MainPatchReturn with the error of Patch dropped instead of passed to must
MainPatchReturnIgnoresError ==
    /\ Running
    /\ mainPc = "patch_wait"
    /\ \E res \in Outcomes(mainCall, cancelled) :
         results' = [results EXCEPT !.patch = res]
    /\ mainPc' = "select"
    /\ mainCall' = "none"
    /\ UNCHANGED <<pollerPc, cancelled, exit, crashCause, branch,
                   cancelledAtRace, foundClosed, foundSends, tick, procVars,
                   fileConsulted, listResult, lrVars, namespace, instance,
                   podName, pods, pollerCall, listErr, otel, calls>>

\* Patch returns; must panics on its error, lines 120-127
MainPatchReturn ==
    /\ Running
    /\ mainPc = "patch_wait"
    /\ \E res \in Outcomes(mainCall, cancelled) :
         IF res = "ok" THEN
            /\ results' = [results EXCEPT !.patch = "ok"]
            /\ mainPc' = "select"
            /\ UNCHANGED <<exit, crashCause, otel>>
         ELSE
            /\ results' = [results EXCEPT !.patch = "err"]
            /\ must("patch")
            /\ UNCHANGED mainPc
    /\ mainCall' = "none"
    /\ UNCHANGED <<pollerPc, cancelled, branch, cancelledAtRace, foundClosed,
                   foundSends, tick, procVars, fileConsulted, listResult,
                   lrVars, namespace, instance, podName, pods, pollerCall,
                   listErr, calls>>

\* select, case <-found (lines 129-131): the poller's send completes
MainSelectFound ==
    /\ Running
    /\ mainPc = "select"
    /\ pollerPc = "send"
    /\ branch' = "found"
    /\ cancelledAtRace' = cancelled
    /\ foundSends' = foundSends + 1
    /\ pollerPc' = "close"
    /\ mainPc' = "delete"
    /\ UNCHANGED <<cancelled, exit, crashCause, foundClosed, tick, procVars,
                   fileConsulted, listResult, lrVars, namespace, instance,
                   podName, pods, mainCall, pollerCall, results, listErr,
                   otel, calls>>

\* MainSelectCtxDone for a select that has lost its ctx.Done case
MainSelectWithoutCtxDone ==
    /\ Running
    /\ mainPc = "select"
    /\ cancelled
    /\ foundClosed
    /\ branch' = "ctx"
    /\ cancelledAtRace' = cancelled
    /\ mainPc' = "delete"
    /\ UNCHANGED <<pollerPc, cancelled, exit, crashCause, foundClosed,
                   foundSends, tick, procVars, fileConsulted, listResult,
                   lrVars, namespace, instance, podName, pods, mainCall,
                   pollerCall, results, listErr, otel, calls>>

\* select, case <-ctx.Done() (lines 132-134)
MainSelectCtxDone ==
    /\ Running
    /\ mainPc = "select"
    /\ cancelled
    /\ branch' = "ctx"
    /\ cancelledAtRace' = cancelled
    /\ mainPc' = "delete"
    /\ UNCHANGED <<pollerPc, cancelled, exit, crashCause, foundClosed,
                   foundSends, tick, procVars, fileConsulted, listResult,
                   lrVars, namespace, instance, podName, pods, mainCall,
                   pollerCall, results, listErr, otel, calls>>

\* MainDeleteIssue with context.Background() in place of the cancelled ctx
MainDeleteIssueBackgroundCtx ==
    /\ Running
    /\ mainPc = "delete"
    /\ mainCall' = CallMode(FALSE)
    /\ calls' = Append(calls, Call("delete", podName, FALSE))
    /\ mainPc' = "delete_wait"
    /\ UNCHANGED <<pollerPc, cancelled, exit, crashCause, branch,
                   cancelledAtRace, foundClosed, foundSends, tick, procVars,
                   fileConsulted, listResult, lrVars, namespace, instance,
                   podName, pods, pollerCall, results, listErr, otel>>

\* Pods(namespace).Delete is called, line 139
MainDeleteIssue ==
    /\ Running
    /\ mainPc = "delete"
    /\ mainCall' = CallMode(cancelled)
    /\ calls' = Append(calls, Call("delete", podName, cancelled))
    /\ mainPc' = "delete_wait"
    /\ UNCHANGED <<pollerPc, cancelled, exit, crashCause, branch,
                   cancelledAtRace, foundClosed, foundSends, tick, procVars,
                   fileConsulted, listResult, lrVars, namespace, instance,
                   podName, pods, pollerCall, results, listErr, otel>>

\* Delete returns; its error is a panic, lines 139-144
MainDeleteReturn ==
    /\ Running
    /\ mainPc = "delete_wait"
    /\ \E res \in Outcomes(mainCall, cancelled) :
         IF res = "ok" THEN
            /\ results' = [results EXCEPT !.delete = "ok"]
            /\ mainPc' = "return"
            /\ UNCHANGED <<exit, crashCause, otel>>
         ELSE
            /\ results' = [results EXCEPT !.delete = "err"]
            /\ must("delete")
            /\ UNCHANGED mainPc
    /\ mainCall' = "none"
    /\ UNCHANGED <<pollerPc, cancelled, branch, cancelledAtRace, foundClosed,
                   foundSends, tick, procVars, fileConsulted, listResult,
                   lrVars, namespace, instance, podName, pods, pollerCall,
                   listErr, calls>>

\* main returns (line 145): the deferred calls run and the process ends with
\* status 0, which also ends the poller
MainReturn ==
    /\ Running
    /\ mainPc = "return"
    /\ otel' \in Shutdown
    /\ exit' = "ok"
    /\ mainPc' = "done"
    /\ UNCHANGED <<pollerPc, cancelled, crashCause, branch, cancelledAtRace,
                   foundClosed, foundSends, tick, procVars, fileConsulted,
                   listResult, lrVars, namespace, instance, podName, pods,
                   mainCall, pollerCall, results, listErr, calls>>

----------------------------------------------------------------------------
\* The poller: go func(ctx), lines 84-116

\* a panic of the poller ends the process; main's deferred calls do not run
PollerPanic(cause) ==
    /\ Panic(cause)
    /\ pollerPc' = "panicked"

\* Pods(namespace).List is called, line 94
PollerListIssue ==
    /\ Running
    /\ pollerPc = "list"
    /\ pollerCall' = CallMode(cancelled)
    /\ calls' = Append(calls, Call("list", PodName(instance), cancelled))
    /\ pollerPc' = "list_wait"
    /\ UNCHANGED <<mainPc, cancelled, exit, crashCause, branch,
                   cancelledAtRace, foundClosed, foundSends, tick, procVars,
                   fileConsulted, listResult, lrVars, namespace, instance,
                   podName, pods, mainCall, results, listErr, otel>>

\* PollerListReturn with an empty result treated like an error
PollerListReturnEmptyIsError ==
    /\ Running
    /\ pollerPc = "list_wait"
    /\ \E res \in Outcomes(pollerCall, cancelled) :
         IF res = "err" \/ listResult = {} THEN
            /\ listErr' = (res = "err")
            /\ PollerPanic("list")
         ELSE
            /\ pollerPc' = "send"
            /\ UNCHANGED <<listErr, exit, crashCause>>
    /\ pollerCall' = "none"
    /\ UNCHANGED <<mainPc, cancelled, branch, cancelledAtRace, foundClosed,
                   foundSends, tick, procVars, fileConsulted, listResult,
                   lrVars, namespace, instance, podName, pods, mainCall,
                   results, otel, calls>>

\* List returns: an error is a panic (lines 97-99); a non-empty result takes
\* the poller to the send on found (lines 101-103), an empty one to its
\* select (line 108)
PollerListReturn ==
    /\ Running
    /\ pollerPc = "list_wait"
    /\ \E res \in Outcomes(pollerCall, cancelled) :
         IF res = "err" THEN
            /\ listErr' = TRUE
            /\ PollerPanic("list")
         ELSE
            /\ pollerPc' = IF listResult # {} THEN "send" ELSE "select"
            /\ UNCHANGED <<listErr, exit, crashCause>>
    /\ pollerCall' = "none"
    /\ UNCHANGED <<mainPc, cancelled, branch, cancelledAtRace, foundClosed,
                   foundSends, tick, procVars, fileConsulted, listResult,
                   lrVars, namespace, instance, podName, pods, mainCall,
                   results, otel, calls>>

\* PollerClose without the return of line 105: the loop goes on
PollerCloseKeepsPolling ==
    /\ Running
    /\ pollerPc = "close"
    /\ foundClosed' = TRUE
    /\ pollerPc' = "list"
    /\ UNCHANGED <<mainPc, cancelled, exit, crashCause, branch,
                   cancelledAtRace, foundSends, tick, procVars, fileConsulted,
                   listResult, lrVars, namespace, instance, podName, pods,
                   mainCall, pollerCall, results, listErr, otel, calls>>

\* close(found); return, lines 104-105 (the send itself is MainSelectFound)
PollerClose ==
    /\ Running
    /\ pollerPc = "close"
    /\ foundClosed' = TRUE
    /\ pollerPc' = "returned"
    /\ UNCHANGED <<mainPc, cancelled, exit, crashCause, branch,
                   cancelledAtRace, foundSends, tick, procVars, fileConsulted,
                   listResult, lrVars, namespace, instance, podName, pods,
                   mainCall, pollerCall, results, listErr, otel, calls>>

\* select, case <-ctx.Done(): return, lines 109-112
PollerSelectCtxDone ==
    /\ Running
    /\ pollerPc = "select"
    /\ cancelled
    /\ pollerPc' = "returned"
    /\ UNCHANGED <<mainPc, cancelled, exit, crashCause, branch,
                   cancelledAtRace, foundClosed, foundSends, tick, procVars,
                   fileConsulted, listResult, lrVars, namespace, instance,
                   podName, pods, mainCall, pollerCall, results, listErr,
                   otel, calls>>

\* select, case <-ticker.C: the next iteration, lines 113-115
PollerSelectTick ==
    /\ Running
    /\ pollerPc = "select"
    /\ tick
    /\ tick' = FALSE
    /\ pollerPc' = "list"
    /\ UNCHANGED <<mainPc, cancelled, exit, crashCause, branch,
                   cancelledAtRace, foundClosed, foundSends, procVars,
                   fileConsulted, listResult, lrVars, namespace, instance,
                   podName, pods, mainCall, pollerCall, results, listErr,
                   otel, calls>>

\* the ticker of line 88 delivers a tick into ticker.C (capacity 1) every
\* 100ms until ticker.Stop; the run is cut after MaxList list queries
Tick ==
    /\ Running
    /\ pollerPc \in {"list", "list_wait", "send", "select"}
    /\ ~tick
    /\ NumCalls("list") + (IF pollerPc = "list" THEN 1 ELSE 0) < MaxList
    /\ tick' = TRUE
    /\ UNCHANGED <<mainPc, pollerPc, cancelled, exit, crashCause, branch,
                   cancelledAtRace, foundClosed, foundSends, procVars,
                   fileConsulted, listResult, lrVars, namespace, instance,
                   podName, pods, mainCall, pollerCall, results, listErr,
                   otel, calls>>

----------------------------------------------------------------------------
\* The cluster applies a request that reached it, while the caller is still
\* blocked in the call

\* the pod of the Create call of line 62 is stored
ServerCreate ==
    /\ Running
    /\ mainPc = "create_wait"
    /\ mainCall = "sent"
    /\ ~pods[PodName(instance)].exists
    /\ pods' = [pods EXCEPT ![PodName(instance)] = CreatedPod]
    /\ mainCall' = "applied"
    /\ UNCHANGED <<mainPc, pollerPc, cancelled, exit, crashCause, branch,
                   cancelledAtRace, foundClosed, foundSends, tick, procVars,
                   fileConsulted, listResult, lrVars, namespace, instance,
                   podName, pollerCall, results, listErr, otel, calls>>

\* the merge patch of lines 120-126 attaches probe-instance=<instance>
ServerPatch ==
    /\ Running
    /\ mainPc = "patch_wait"
    /\ mainCall = "sent"
    /\ pods[podName].exists
    /\ pods' = [pods EXCEPT ![podName].probeInstance = instance]
    /\ mainCall' = "applied"
    /\ UNCHANGED <<mainPc, pollerPc, cancelled, exit, crashCause, branch,
                   cancelledAtRace, foundClosed, foundSends, tick, procVars,
                   fileConsulted, listResult, lrVars, namespace, instance,
                   podName, pollerCall, results, listErr, otel, calls>>

\* the pod named in the Delete call of line 139 is removed
ServerDelete ==
    /\ Running
    /\ mainPc = "delete_wait"
    /\ mainCall = "sent"
    /\ pods[podName].exists
    /\ pods' = [pods EXCEPT ![podName] = AbsentPod]
    /\ mainCall' = "applied"
    /\ UNCHANGED <<mainPc, pollerPc, cancelled, exit, crashCause, branch,
                   cancelledAtRace, foundClosed, foundSends, tick, procVars,
                   fileConsulted, listResult, lrVars, namespace, instance,
                   podName, pollerCall, results, listErr, otel, calls>>

\* the list query of lines 94-96 is answered from the pods of that moment
ServerList ==
    /\ Running
    /\ pollerPc = "list_wait"
    /\ pollerCall = "sent"
    /\ listResult' = ListItems(pods, instance)
    /\ pollerCall' = "applied"
    /\ UNCHANGED <<mainPc, pollerPc, cancelled, exit, crashCause, branch,
                   cancelledAtRace, foundClosed, foundSends, tick, procVars,
                   fileConsulted, lrVars, namespace, instance, podName, pods,
                   mainCall, results, listErr, otel, calls>>

----------------------------------------------------------------------------
Next ==
    \/ CtxCancel
    \/ initOpenTelemetry
    \/ MainLoadConfig
    \/ MainNamespace
    \/ MainInstance
    \/ MainCreateIssue
    \/ MainCreateReturn
    \/ MainStartPoller
    \/ MainPatchIssue
    \/ MainPatchReturn
    \/ MainSelectFound
    \/ MainSelectCtxDone
    \/ MainDeleteIssue
    \/ MainDeleteReturn
    \/ MainReturn
    \/ PollerListIssue
    \/ PollerListReturn
    \/ PollerClose
    \/ PollerSelectCtxDone
    \/ PollerSelectTick
    \/ Tick
    \/ ServerCreate
    \/ ServerPatch
    \/ ServerDelete
    \/ ServerList

Spec == Init /\ [][Next]_vars

\* the steps of main and of the poller goroutine
MainNext ==
    \/ initOpenTelemetry
    \/ MainLoadConfig
    \/ MainNamespace
    \/ MainInstance
    \/ MainCreateIssue
    \/ MainCreateReturn
    \/ MainStartPoller
    \/ MainPatchIssue
    \/ MainPatchReturn
    \/ MainSelectFound
    \/ MainSelectCtxDone
    \/ MainDeleteIssue
    \/ MainDeleteReturn
    \/ MainReturn

PollerNext ==
    \/ PollerListIssue
    \/ PollerListReturn
    \/ PollerClose
    \/ PollerSelectCtxDone
    \/ PollerSelectTick

\* Both goroutines are scheduled, every call returns (a return is a step of
\* the caller) and the deadline of line 30 fires.
FairSpec ==
    /\ Spec
    /\ WF_vars(MainNext)
    /\ WF_vars(PollerNext)
    /\ WF_vars(CtxCancel)

TypeOK ==
    /\ mainPc \in {"otel", "config", "namespace", "rand", "create",
                   "create_wait", "go", "patch", "patch_wait", "select",
                   "delete", "delete_wait", "return", "done", "go_cleanup"}
    /\ pollerPc \in {"notstarted", "list", "list_wait", "send", "close",
                     "select", "returned", "panicked"}
    /\ cancelled \in BOOLEAN
    /\ exit \in {"running", "ok", "crashed"}
    /\ crashCause \in {"none", "otel_exporter", "otel_resource", "config",
                       "namespace", "create", "patch", "delete", "list"}
    /\ branch \in {"none", "found", "ctx"}
    /\ foundSends \in 0..1
    /\ instance \in 0..MaxInstance
    /\ podName \in PodNames \cup {NoPod}
    /\ NumCalls("list") <= MaxList
    /\ cleanerPc \in {"notstarted", "select", "delete", "delete_wait",
                      "send_done", "returned", "panicked"}
    /\ finalBranch \in {"none", "done", "ctx"}
    /\ doneSends \in 0..1
    /\ latencyLines \in 0..1

----------------------------------------------------------------------------
\* The latency-reporting main, lines 225-328: main, the poller (lines
\* 263-289) and the cleanup goroutine (lines 292-310), which receives from
\* found, prints the latency, deletes the pod and signals main on done.

InitLR ==
    /\ mainPc = "config"
    /\ pollerPc = "notstarted"
    /\ cancelled = FALSE
    /\ exit = "running"
    /\ crashCause = "none"
    /\ branch = "none"
    /\ cancelledAtRace = FALSE
    /\ foundClosed = FALSE
    /\ foundSends = 0
    /\ tick = FALSE
    /\ envNs = ""
    /\ fileReadable = FALSE
    /\ namespace = "default"
    /\ instance = 0
    /\ podName = NoPod
    /\ pods = [n \in PodNames |-> AbsentPod]
    /\ mainCall = "none"
    /\ pollerCall = "none"
    /\ results = [create |-> "none", patch |-> "none", delete |-> "none"]
    /\ listErr = FALSE
    /\ otel = "none"
    /\ calls = <<>>
    /\ fileConsulted = FALSE
    /\ listResult = {}
    /\ cleanerPc = "notstarted"
    /\ cleanerCall = "none"
    /\ finalBranch = "none"
    /\ doneSends = 0
    /\ latencyLines = 0

\* rest.InClusterConfig and kubernetes.NewForConfig, lines 233-236
LRMainLoadConfig ==
    /\ Running
    /\ mainPc = "config"
    /\ \E ok \in BOOLEAN :
         IF ok THEN
            /\ mainPc' = "rand"
            /\ UNCHANGED <<exit, crashCause>>
         ELSE
            /\ Panic("config")
            /\ UNCHANGED mainPc
    /\ UNCHANGED <<pollerPc, cancelled, branch, cancelledAtRace, foundClosed,
                   foundSends, tick, envNs, fileReadable, namespace,
                   instance, podName, pods, mainCall, pollerCall, results,
                   listErr, otel, calls, fileConsulted, listResult,
                   cleanerPc, cleanerCall, finalBranch, doneSends,
                   latencyLines>>

\* rand.Read and hex.EncodeToString, lines 238-240
LRMainInstance ==
    /\ Running
    /\ mainPc = "rand"
    /\ \E i \in Instances : instance' = i
    /\ mainPc' = "create"
    /\ UNCHANGED <<pollerPc, cancelled, exit, crashCause, branch,
                   cancelledAtRace, foundClosed, foundSends, tick, envNs,
                   fileReadable, namespace, podName, pods, mainCall,
                   pollerCall, results, listErr, otel, calls, fileConsulted,
                   listResult, cleanerPc, cleanerCall, finalBranch,
                   doneSends, latencyLines>>

\* Pods("default").Create is called, line 242
LRMainCreateIssue ==
    /\ Running
    /\ mainPc = "create"
    /\ mainCall' = CallMode(cancelled)
    /\ calls' = Append(calls, Call("create", PodName(instance), cancelled))
    /\ mainPc' = "create_wait"
    /\ UNCHANGED <<pollerPc, cancelled, exit, crashCause, branch,
                   cancelledAtRace, foundClosed, foundSends, tick, envNs,
                   fileReadable, namespace, instance, podName, pods,
                   pollerCall, results, listErr, otel, fileConsulted,
                   listResult, cleanerPc, cleanerCall, finalBranch,
                   doneSends, latencyLines>>

\* Create returns; must panics on its error, lines 242-260
LRMainCreateReturn ==
    /\ Running
    /\ mainPc = "create_wait"
    /\ \E res \in Outcomes(mainCall, cancelled) :
         IF res = "ok" THEN
            /\ results' = [results EXCEPT !.create = "ok"]
            /\ podName' = PodName(instance)
            /\ mainPc' = "go"
            /\ UNCHANGED <<exit, crashCause>>
         ELSE
            /\ results' = [results EXCEPT !.create = "err"]
            /\ Panic("create")
            /\ UNCHANGED <<mainPc, podName>>
    /\ mainCall' = "none"
    /\ UNCHANGED <<pollerPc, cancelled, branch, cancelledAtRace, foundClosed,
                   foundSends, tick, envNs, fileReadable, namespace,
                   instance, pods, pollerCall, listErr, otel, calls,
                   fileConsulted, listResult, cleanerPc, cleanerCall,
                   finalBranch, doneSends, latencyLines>>

\* found := make(chan struct{}); go func(ctx), lines 262-263 and 289
LRMainStartPoller ==
    /\ Running
    /\ mainPc = "go"
    /\ pollerPc' = "select"
    /\ mainPc' = "go_cleanup"
    /\ UNCHANGED <<cancelled, exit, crashCause, branch, cancelledAtRace,
                   foundClosed, foundSends, tick, envNs, fileReadable,
                   namespace, instance, podName, pods, mainCall, pollerCall,
                   results, listErr, otel, calls, fileConsulted, listResult,
                   cleanerPc, cleanerCall, finalBranch, doneSends,
                   latencyLines>>

\* done := make(chan struct{}); go func(ctx), lines 291-292 and 310
LRMainStartCleanup ==
    /\ Running
    /\ mainPc = "go_cleanup"
    /\ cleanerPc' = "select"
    /\ mainPc' = "patch"
    /\ UNCHANGED <<pollerPc, cancelled, exit, crashCause, branch,
                   cancelledAtRace, foundClosed, foundSends, tick, envNs,
                   fileReadable, namespace, instance, podName, pods,
                   mainCall, pollerCall, results, listErr, otel, calls,
                   fileConsulted, listResult, cleanerCall, finalBranch,
                   doneSends, latencyLines>>

\* Pods("default").Patch is called, line 313
LRMainPatchIssue ==
    /\ Running
    /\ mainPc = "patch"
    /\ mainCall' = CallMode(cancelled)
    /\ calls' = Append(calls, Call("patch", podName, cancelled))
    /\ mainPc' = "patch_wait"
    /\ UNCHANGED <<pollerPc, cancelled, exit, crashCause, branch,
                   cancelledAtRace, foundClosed, foundSends, tick, envNs,
                   fileReadable, namespace, instance, podName, pods,
                   pollerCall, results, listErr, otel, fileConsulted,
                   listResult, cleanerPc, cleanerCall, finalBranch,
                   doneSends, latencyLines>>

\* Patch returns; must panics on its error, lines 313-319
LRMainPatchReturn ==
    /\ Running
    /\ mainPc = "patch_wait"
    /\ \E res \in Outcomes(mainCall, cancelled) :
         IF res = "ok" THEN
            /\ results' = [results EXCEPT !.patch = "ok"]
            /\ mainPc' = "select"
            /\ UNCHANGED <<exit, crashCause>>
         ELSE
            /\ results' = [results EXCEPT !.patch = "err"]
            /\ Panic("patch")
            /\ UNCHANGED mainPc
    /\ mainCall' = "none"
    /\ UNCHANGED <<pollerPc, cancelled, branch, cancelledAtRace, foundClosed,
                   foundSends, tick, envNs, fileReadable, namespace,
                   instance, podName, pods, pollerCall, listErr, otel, calls,
                   fileConsulted, listResult, cleanerPc, cleanerCall,
                   finalBranch, doneSends, latencyLines>>

\* the final select, case <-done (lines 321-323): the cleanup goroutine's
\* send completes and that goroutine ends
LRMainSelectDone ==
    /\ Running
    /\ mainPc = "select"
    /\ cleanerPc = "send_done"
    /\ finalBranch' = "done"
    /\ doneSends' = doneSends + 1
    /\ cleanerPc' = "returned"
    /\ mainPc' = "return"
    /\ UNCHANGED <<pollerPc, cancelled, exit, crashCause, branch,
                   cancelledAtRace, foundClosed, foundSends, tick, envNs,
                   fileReadable, namespace, instance, podName, pods,
                   mainCall, pollerCall, results, listErr, otel, calls,
                   fileConsulted, listResult, cleanerCall, latencyLines>>

\* the final select, case <-ctx.Done() (lines 324-325)
LRMainSelectCtxDone ==
    /\ Running
    /\ mainPc = "select"
    /\ cancelled
    /\ finalBranch' = "ctx"
    /\ mainPc' = "return"
    /\ UNCHANGED <<pollerPc, cancelled, exit, crashCause, branch,
                   cancelledAtRace, foundClosed, foundSends, tick, envNs,
                   fileReadable, namespace, instance, podName, pods,
                   mainCall, pollerCall, results, listErr, otel, calls,
                   fileConsulted, listResult, cleanerPc, cleanerCall,
                   doneSends, latencyLines>>

\* main prints and returns (lines 327-328): the process ends with status 0,
\* which also ends the goroutines
LRMainReturn ==
    /\ Running
    /\ mainPc = "return"
    /\ exit' = "ok"
    /\ mainPc' = "done"
    /\ UNCHANGED <<pollerPc, cancelled, crashCause, branch, cancelledAtRace,
                   foundClosed, foundSends, tick, envNs, fileReadable,
                   namespace, instance, podName, pods, mainCall, pollerCall,
                   results, listErr, otel, calls, fileConsulted, listResult,
                   cleanerPc, cleanerCall, finalBranch, doneSends,
                   latencyLines>>

\* the poller's select, case <-ctx.Done(): return, lines 269-271
LRPollerSelectCtxDone ==
    /\ Running
    /\ pollerPc = "select"
    /\ cancelled
    /\ pollerPc' = "returned"
    /\ UNCHANGED <<mainPc, cancelled, exit, crashCause, branch,
                   cancelledAtRace, foundClosed, foundSends, tick, envNs,
                   fileReadable, namespace, instance, podName, pods,
                   mainCall, pollerCall, results, listErr, otel, calls,
                   fileConsulted, listResult, cleanerPc, cleanerCall,
                   finalBranch, doneSends, latencyLines>>

\* the poller's select, case <-ticker.C: Pods("default").List is called,
\* lines 272-277
LRPollerTickList ==
    /\ Running
    /\ pollerPc = "select"
    /\ tick
    /\ tick' = FALSE
    /\ pollerCall' = CallMode(cancelled)
    /\ calls' = Append(calls, Call("list", PodName(instance), cancelled))
    /\ pollerPc' = "list_wait"
    /\ UNCHANGED <<mainPc, cancelled, exit, crashCause, branch,
                   cancelledAtRace, foundClosed, foundSends, envNs,
                   fileReadable, namespace, instance, podName, pods,
                   mainCall, results, listErr, otel, fileConsulted,
                   listResult, cleanerPc, cleanerCall, finalBranch,
                   doneSends, latencyLines>>

\* List returns: an error is a panic (lines 278-280); a non-empty result takes
\* the poller to the send on found (lines 282-283), an empty one back to its
\* select
LRPollerListReturn ==
    /\ Running
    /\ pollerPc = "list_wait"
    /\ \E res \in Outcomes(pollerCall, cancelled) :
         IF res = "err" THEN
            /\ listErr' = TRUE
            /\ PollerPanic("list")
         ELSE
            /\ pollerPc' = IF listResult # {} THEN "send" ELSE "select"
            /\ UNCHANGED <<listErr, exit, crashCause>>
    /\ pollerCall' = "none"
    /\ UNCHANGED <<mainPc, cancelled, branch, cancelledAtRace, foundClosed,
                   foundSends, tick, envNs, fileReadable, namespace,
                   instance, podName, pods, mainCall, results, otel, calls,
                   fileConsulted, listResult, cleanerPc, cleanerCall,
                   finalBranch, doneSends, latencyLines>>

\* close(found); return, lines 284-285
LRPollerClose ==
    /\ Running
    /\ pollerPc = "close"
    /\ foundClosed' = TRUE
    /\ pollerPc' = "returned"
    /\ UNCHANGED <<mainPc, cancelled, exit, crashCause, branch,
                   cancelledAtRace, foundSends, tick, envNs, fileReadable,
                   namespace, instance, podName, pods, mainCall, pollerCall,
                   results, listErr, otel, calls, fileConsulted, listResult,
                   cleanerPc, cleanerCall, finalBranch, doneSends,
                   latencyLines>>

\* the ticker of line 264 delivers a tick into ticker.C (capacity 1); the run
\* is cut after MaxList list queries
LRTick ==
    /\ Running
    /\ pollerPc \in {"select", "list_wait", "send"}
    /\ ~tick
    /\ NumCalls("list") < MaxList
    /\ tick' = TRUE
    /\ UNCHANGED <<mainPc, pollerPc, cancelled, exit, crashCause, branch,
                   cancelledAtRace, foundClosed, foundSends, envNs,
                   fileReadable, namespace, instance, podName, pods,
                   mainCall, pollerCall, results, listErr, otel, calls,
                   fileConsulted, listResult, cleanerPc, cleanerCall,
                   finalBranch, doneSends, latencyLines>>

\* LRCleanupSelectCtxDone printing the latency line of line 300 as well
LRCleanupSelectCtxDonePrintsLatency ==
    /\ Running
    /\ cleanerPc = "select"
    /\ cancelled
    /\ branch' = "ctx"
    /\ cancelledAtRace' = cancelled
    /\ latencyLines' = latencyLines + 1
    /\ cleanerPc' = "returned"
    /\ UNCHANGED <<mainPc, pollerPc, cancelled, exit, crashCause,
                   foundClosed, foundSends, tick, envNs, fileReadable,
                   namespace, instance, podName, pods, mainCall, pollerCall,
                   results, listErr, otel, calls, fileConsulted, listResult,
                   cleanerCall, finalBranch, doneSends>>

\* LRCleanupSelectCtxDone going on to the Delete of line 303
LRCleanupSelectCtxDoneDeletes ==
    /\ Running
    /\ cleanerPc = "select"
    /\ cancelled
    /\ branch' = "ctx"
    /\ cancelledAtRace' = cancelled
    /\ cleanerPc' = "delete"
    /\ UNCHANGED <<mainPc, pollerPc, cancelled, exit, crashCause,
                   foundClosed, foundSends, tick, envNs, fileReadable,
                   namespace, instance, podName, pods, mainCall, pollerCall,
                   results, listErr, otel, calls, fileConsulted, listResult,
                   cleanerCall, finalBranch, doneSends, latencyLines>>

\* the cleanup goroutine's select, case <-ctx.Done(): return, lines 296-298
LRCleanupSelectCtxDone ==
    /\ Running
    /\ cleanerPc = "select"
    /\ cancelled
    /\ branch' = "ctx"
    /\ cancelledAtRace' = cancelled
    /\ cleanerPc' = "returned"
    /\ UNCHANGED <<mainPc, pollerPc, cancelled, exit, crashCause,
                   foundClosed, foundSends, tick, envNs, fileReadable,
                   namespace, instance, podName, pods, mainCall, pollerCall,
                   results, listErr, otel, calls, fileConsulted, listResult,
                   cleanerCall, finalBranch, doneSends, latencyLines>>

\* the cleanup goroutine's select, case <-found (lines 299-301): the poller's
\* send completes and the latency line is printed, with no blocking operation
\* in between
LRCleanupSelectFound ==
    /\ Running
    /\ cleanerPc = "select"
    /\ pollerPc = "send"
    /\ branch' = "found"
    /\ cancelledAtRace' = cancelled
    /\ foundSends' = foundSends + 1
    /\ latencyLines' = latencyLines + 1
    /\ pollerPc' = "close"
    /\ cleanerPc' = "delete"
    /\ UNCHANGED <<mainPc, cancelled, exit, crashCause, foundClosed, tick,
                   envNs, fileReadable, namespace, instance, podName, pods,
                   mainCall, pollerCall, results, listErr, otel, calls,
                   fileConsulted, listResult, cleanerCall, finalBranch,
                   doneSends>>

\* Pods("default").Delete is called, line 303
LRCleanupDeleteIssue ==
    /\ Running
    /\ cleanerPc = "delete"
    /\ cleanerCall' = CallMode(cancelled)
    /\ calls' = Append(calls, Call("delete", podName, cancelled))
    /\ cleanerPc' = "delete_wait"
    /\ UNCHANGED <<mainPc, pollerPc, cancelled, exit, crashCause, branch,
                   cancelledAtRace, foundClosed, foundSends, tick, envNs,
                   fileReadable, namespace, instance, podName, pods,
                   mainCall, pollerCall, results, listErr, otel,
                   fileConsulted, listResult, finalBranch, doneSends,
                   latencyLines>>

\* the cluster removes the pod named in the Delete call of line 303
LRServerDelete ==
    /\ Running
    /\ cleanerPc = "delete_wait"
    /\ cleanerCall = "sent"
    /\ pods[podName].exists
    /\ pods' = [pods EXCEPT ![podName] = AbsentPod]
    /\ cleanerCall' = "applied"
    /\ UNCHANGED <<mainPc, pollerPc, cancelled, exit, crashCause, branch,
                   cancelledAtRace, foundClosed, foundSends, tick, envNs,
                   fileReadable, namespace, instance, podName, mainCall,
                   pollerCall, results, listErr, otel, calls, fileConsulted,
                   listResult, cleanerPc, finalBranch, doneSends,
                   latencyLines>>

\* Delete returns: its error is a panic of the cleanup goroutine, which ends
\* the process; otherwise the goroutine goes to its send on done, lines 303-308
LRCleanupDeleteReturn ==
    /\ Running
    /\ cleanerPc = "delete_wait"
    /\ \E res \in Outcomes(cleanerCall, cancelled) :
         IF res = "ok" THEN
            /\ results' = [results EXCEPT !.delete = "ok"]
            /\ cleanerPc' = "send_done"
            /\ UNCHANGED <<exit, crashCause>>
         ELSE
            /\ results' = [results EXCEPT !.delete = "err"]
            /\ Panic("delete")
            /\ cleanerPc' = "panicked"
    /\ cleanerCall' = "none"
    /\ UNCHANGED <<mainPc, pollerPc, cancelled, branch, cancelledAtRace,
                   foundClosed, foundSends, tick, envNs, fileReadable,
                   namespace, instance, podName, pods, mainCall, pollerCall,
                   listErr, otel, calls, fileConsulted, listResult,
                   finalBranch, doneSends, latencyLines>>

NextLR ==
    \/ CtxCancel
    \/ LRMainLoadConfig
    \/ LRMainInstance
    \/ LRMainCreateIssue
    \/ LRMainCreateReturn
    \/ LRMainStartPoller
    \/ LRMainStartCleanup
    \/ LRMainPatchIssue
    \/ LRMainPatchReturn
    \/ LRMainSelectDone
    \/ LRMainSelectCtxDone
    \/ LRMainReturn
    \/ LRPollerSelectCtxDone
    \/ LRPollerTickList
    \/ LRPollerListReturn
    \/ LRPollerClose
    \/ LRTick
    \/ LRCleanupSelectCtxDone
    \/ LRCleanupSelectFound
    \/ LRCleanupDeleteIssue
    \/ LRCleanupDeleteReturn
    \/ LRServerDelete
    \/ ServerCreate
    \/ ServerPatch
    \/ ServerList

SpecLR == InitLR /\ [][NextLR]_vars

----------------------------------------------------------------------------
\* Properties

Ended == exit # "running"

ExistingPods == {n \in PodNames : pods[n].exists}

DeletesOfOwnPod == {k \in CallsOf("delete") : calls[k].name = PodName(instance)}

\* C1: in every run in which Create succeeded, when the process has ended
\* exactly one Delete call, for the pod probe-<instance>, was issued.
C1_DeleteExactlyOnce ==
    (Ended /\ results.create = "ok") =>
        /\ NumCalls("delete") = 1
        /\ Cardinality(DeletesOfOwnPod) = 1

\* C2: when main took the ctx.Done branch of its select and the Delete that
\* follows failed, the failure does not end the run with a crash.
C2_TimeoutDeleteFailureNotFatal ==
    (branch = "ctx" /\ results.delete = "err") => exit # "crashed"

C4_NoPodLeftBehind ==
    /\ Cardinality(ExistingPods) <= 1
    /\ Ended => ExistingPods = {}

\* C5: once main has left its select through ctx.Done, the poller is not
\* parked on the send to found (no receiver is left, so that send can never
\* complete and the goroutine can never return).
C5_PollerNeverStuckOnSend ==
    ~(branch = "ctx" /\ pollerPc = "send")

\* C6: an error returned by a list query does not crash the process.
C6_ListErrorDoesNotCrash ==
    listErr => exit # "crashed"

\* C7: a failure of the Patch call does not abort the run.
C7_PatchErrorDoesNotAbort ==
    results.patch = "err" => exit # "crashed"

\* C8: when Create fails the run is aborted by a panic at once: the poller
\* is never started and no list, patch or delete call is issued.
C8_CreateFailureAborts ==
    results.create = "err" =>
        /\ exit = "crashed"
        /\ crashCause = "create"
        /\ pollerPc = "notstarted"
        /\ NumCalls("list") = 0
        /\ NumCalls("patch") = 0
        /\ NumCalls("delete") = 0
        /\ Len(calls) = 1

\* a Create that reached the cluster and came back with an error
C8_Witness ==
    /\ results.create = "err"
    /\ calls[1].live
    /\ exit = "crashed"

\* C9: a run whose select was resolved by the deadline (ctx.Done), and in
\* which no list query failed, ends with exit status 0.
C9_DeadlineExitsZero ==
    (branch = "ctx" /\ ~listErr /\ Ended) => exit = "ok"

\* C10: a failure of the instrumentation setup (the exporter or the
\* resource cannot be created) never aborts the probe.
C10_InstrumentationNeverAborts ==
    crashCause \notin {"otel_exporter", "otel_resource"}

\* the namespace step of line 50 has run
NamespaceResolved ==
    mainPc \notin {"otel", "config", "namespace"} \/ crashCause = "namespace"

\* C11: currentNamespace returns the K8S_NAMESPACE_NAME override when it is
\* set, without consulting the namespace file; otherwise the content of the
\* file; when the override is unset and the file cannot be read its error
\* aborts the run before any remote call is issued.
C11_NamespaceResolutionOrder ==
    NamespaceResolved =>
        /\ envNs # "" =>
              /\ namespace = envNs
              /\ ~fileConsulted
              /\ crashCause # "namespace"
        /\ (envNs = "" /\ fileReadable) =>
              /\ namespace = FileNamespace
              /\ fileConsulted
              /\ crashCause # "namespace"
        /\ (envNs = "" /\ ~fileReadable) =>
              /\ exit = "crashed"
              /\ crashCause = "namespace"
              /\ calls = <<>>

\* the override is set while the file is readable too, and the run has
\* gone on to Create in the override's namespace
C11_Witness ==
    /\ envNs # ""
    /\ fileReadable
    /\ namespace = envNs
    /\ NumCalls("create") = 1

\* a step that issues no list query
ListCallsUnchanged == NumCalls("list")' = NumCalls("list")

\* C13: the poller completes at most one send on found; after the first
\* non-empty list result it issues no further list query and waits for no
\* further tick, and after the send it closes found once and returns; main
\* acts on at most one visibility signal.
C13_SignalAtMostOnce ==
    /\ [](/\ foundSends <= 1
          /\ foundSends = 1 =>
                (pollerPc \in {"close", "returned"} /\ branch = "found")
          /\ branch = "found" => foundSends = 1
          /\ foundClosed => (foundSends = 1 /\ pollerPc = "returned"))
    /\ [][/\ pollerPc \in {"send", "close"} =>
                /\ pollerPc' \in {"send", "close", "returned"}
                /\ ListCallsUnchanged
          /\ pollerPc = "returned" =>
                /\ pollerPc' = "returned"
                /\ ListCallsUnchanged
                /\ foundClosed' = foundClosed
                /\ foundSends' = foundSends]_vars

\* the poller has signalled once, closed found and returned
C13_Witness ==
    /\ foundSends = 1
    /\ foundClosed
    /\ pollerPc = "returned"
    /\ NumCalls("list") >= 2

\* C14: the cancellation of ctx is never undone, and a call issued after it
\* fails fast: it is never applied by the cluster and it returns an error.
C14_NoLiveCallAfterCancel ==
    /\ [](/\ mainCall = "failfast" => cancelled
          /\ pollerCall = "failfast" => cancelled)
    /\ [][/\ cancelled => cancelled'
          /\ (cancelled /\ Len(calls') > Len(calls)) =>
                ~calls'[Len(calls')].live
          /\ (cancelled /\ mainCall = "none" /\ mainCall' # "none") =>
                mainCall' = "failfast"
          /\ (cancelled /\ pollerCall = "none" /\ pollerCall' # "none") =>
                pollerCall' = "failfast"
          /\ mainCall = "failfast" =>
                /\ mainCall' \in {"failfast", "none"}
                /\ pods' = pods
                /\ mainCall' = "none" =>
                      \E op \in {"create", "patch", "delete"} :
                         results[op] = "none" /\ results'[op] = "err"
          /\ pollerCall = "failfast" =>
                /\ pollerCall' \in {"failfast", "none"}
                /\ listResult' = listResult
                /\ pollerCall' = "none" => listErr']_vars

\* after the cancellation the poller took the ticker case and issued a list
\* query, main took ctx.Done and issued the Delete, and the Delete failed
C14_Witness ==
    /\ \E k \in CallsOf("list") : ~calls[k].live
    /\ \E k \in CallsOf("delete") : ~calls[k].live
    /\ branch = "ctx"
    /\ results.delete = "err"

\* C15: the Patch is issued only after Create has returned the pod; a list
\* query answered with no item (the pod has no probe-instance label yet)
\* sends nothing on found and raises no error: the poller goes on to its
\* select and the next tick.
C15_PatchAfterCreateEmptyListTolerated ==
    /\ [](\A k \in CallsOf("patch") :
             /\ results.create = "ok"
             /\ calls[k].name = podName
             /\ \E c \in CallsOf("create") : c < k)
    /\ [][(/\ pollerPc = "list_wait"
           /\ pollerPc' # "list_wait"
           /\ ~listErr'
           /\ listResult = {}) =>
                /\ pollerPc' = "select"
                /\ exit' = "running"
                /\ foundSends' = foundSends
                /\ branch' = branch]_vars

\* a list query was issued before the Patch and answered without items, a
\* later one was issued after the Patch and found the pod
C15_Witness ==
    /\ \E i \in CallsOf("list"), j \in CallsOf("patch"), k \in CallsOf("list") :
          i < j /\ j < k
    /\ pollerPc = "send"

\* C16: Create, Patch and Delete are each issued at most once in a run, and
\* after a list query has failed no further list query is issued.
C16_NoRetry ==
    /\ [](/\ NumCalls("create") <= 1
          /\ NumCalls("patch") <= 1
          /\ NumCalls("delete") <= 1)
    /\ [][(listErr \/ listErr') => ListCallsUnchanged]_vars

\* a failed Patch and the run over, with one Patch call in the log
C16_Witness ==
    /\ results.patch = "err"
    /\ NumCalls("patch") = 1
    /\ NumCalls("list") >= 1
    /\ Ended

\* C17: main always leaves its select and the process always ends.
C17_CoordinatorTerminates ==
    /\ <>Ended
    /\ (mainPc = "select") ~> (mainPc # "select" \/ Ended)

\* the run ended after main left the select through ctx.Done while the
\* poller had returned without a signal
C17_Witness ==
    /\ Ended
    /\ branch = "ctx"
    /\ pollerPc = "returned"
    /\ foundSends = 0

\* C18: the Delete is issued only after the Patch has returned without error
\* and main's select has been resolved; while main is in the Patch call no
\* Delete is issued and a poller that has seen the pod stays on its send.
C18_DeleteAfterPatchAndRace ==
    /\ [](/\ NumCalls("delete") > 0 =>
                (results.patch = "ok" /\ branch # "none")
          /\ mainPc \in {"patch", "patch_wait"} =>
                (NumCalls("delete") = 0 /\ foundSends = 0 /\ branch = "none"))
    /\ [][(mainPc \in {"patch", "patch_wait"} /\ pollerPc = "send") =>
                (pollerPc' = "send" /\ calls' = calls)]_vars

\* the poller has seen the labelled pod while main is still in the Patch call
C18_Witness ==
    /\ mainPc = "patch_wait"
    /\ pollerPc = "send"

\* C12: in the latency-reporting main the latency line is printed exactly
\* once when the cleanup goroutine's select is resolved by found, and never
\* when it is resolved by ctx.Done.
C12_LatencyOncePerVisibility ==
    /\ latencyLines <= 1
    /\ branch = "found" <=> latencyLines = 1
    /\ branch \in {"none", "ctx"} => latencyLines = 0
    /\ Ended => (latencyLines = 1 <=> foundSends = 1)

\* a run in which found won the race, ended by main's receive from done
C12_Witness ==
    /\ branch = "found"
    /\ latencyLines = 1
    /\ finalBranch = "done"
    /\ exit = "ok"

\* C19: in the latency-reporting main the Delete is issued only on the found
\* branch of the cleanup goroutine; on the ctx.Done branch that goroutine
\* returns with no Delete and no send on done, so that main's final select
\* is resolved by ctx.Done only; and when main's final select is resolved by
\* done, the Delete has already returned without error.
C19_DeleteOnlyOnVisibilityBranch ==
    /\ NumCalls("delete") > 0 => branch = "found"
    /\ NumCalls("delete") <= 1
    /\ branch = "ctx" =>
          /\ cleanerPc = "returned"
          /\ NumCalls("delete") = 0
          /\ doneSends = 0
          /\ finalBranch # "done"
    /\ finalBranch = "done" =>
          /\ branch = "found"
          /\ doneSends = 1
          /\ results.delete = "ok"
          /\ ExistingPods = {}

\* the cleanup goroutine left through ctx.Done and main's final select was
\* then resolved by ctx.Done
C19_Witness ==
    /\ branch = "ctx"
    /\ cleanerPc = "returned"
    /\ finalBranch = "ctx"
    /\ exit = "ok"

====
